---- MODULE Spec2Model ----
(***************************************************************************)
(* Smart resume analyser: the skill matcher (matchResumeToJob), the        *)
(* applicants ranking endpoint, and the AI gateway endpoints of the        *)
(* Express server, with the Firestore collections they read.               *)
(*                                                                         *)
(* A JavaScript string is a sequence of one-character strings.  A Number   *)
(* produced by the score computation is an IEEE-754 binary64 value, kept   *)
(* as its 53 significand bits and the count of bits after the binary       *)
(* point.                                                                  *)
(***************************************************************************)
EXTENDS Integers, Sequences, FiniteSets, TLC

VARIABLES
    inResume,      \* matcher run: the resumeText argument
    inSkills,      \* matcher run: the jobSkillsString argument
    outResult,     \* matcher run: the value returned, or NoResult
    matchPc,       \* matcher run: "off" | "ready" | "done"
    jobs,          \* Firestore collection 'jobs': job id -> document or NoDoc
    nextJobId,     \* job ids handed out so far (add() never reuses an id)
    resumes,       \* Firestore collection 'resumes': user id -> document or NoDoc
    users,         \* Firestore collection 'users': user id -> document or NoDoc
    rank,          \* GET /api/applicants/:jobId requests in flight and answered
    page,          \* ApplicantsPage: its fetchApplicants call and its state
    gen,           \* POST /api/ai/* requests in flight and answered
    gemini,        \* process.env: whether GEMINI_API_KEY and CANVAS_MODE are set
    upload,        \* POST /api/resumes/upload requests in flight and answered
    files,         \* the uploads/ directory: path -> file or NoFile
    now,           \* Date.now()
    deleteReq,     \* who sent the last DELETE /api/jobs/:jobId (the handler never looks)
    matchReq,      \* the GET /api/match/:jobId/:userId requests
    lookup,        \* the last answer of GET /api/jobs/:jobId
    view           \* the MatchAnalysis component: props, state, requests in flight

matchVars == <<inResume, inSkills, outResult, matchPc>>
storeVars == <<jobs, nextJobId, resumes, users>>
rankVars == <<rank, page>>
genVars == <<gen, gemini>>
uploadVars == <<upload, files, now>>
readVars == <<matchReq, lookup, view>>
vars == <<inResume, inSkills, outResult, matchPc, jobs, nextJobId, resumes, users, rank, page,
          gen, gemini, upload, files, now, deleteReq, matchReq, lookup, view>>

\* ------------------------------------------------------------------------
\* Bounds of the explored inputs
\* ------------------------------------------------------------------------
MaxResumeLen == 2      \* longest enumerated resume text, in characters
MaxSkillsLen == 2      \* longest enumerated skills string, in characters
MaxMatched == 23       \* generated skill lists: most skills present in the resume
MaxMissing == 17       \* generated skill lists: most skills absent from the resume
MaxUsers == 2          \* user ids 1..MaxUsers

\* ------------------------------------------------------------------------
\* Characters
\* ------------------------------------------------------------------------
LowerChars == {"a", "b"}
UpperChars == {"A"}
DigitChars == {"0", "1", "2", "3", "4", "5", "6", "7", "8", "9"}
WhitespaceChars == {" ", "\n"}
ResumeChars == {"a", "b", "A", "+", " ", "\n", ","}
SkillsChars == {"a", "b", "A", "+", " ", ","}

NoResult == [none |-> TRUE]

\* String.prototype.toLowerCase, one character
LowerOf(c) == IF c = "A" THEN "a" ELSE c

\* no lower-casing at all
toLowerCase_Identity(text) == text

\* String.prototype.toLowerCase
toLowerCase(text) == [i \in 1..Len(text) |-> LowerOf(text[i])]

\* /[^a-z0-9\s,]/ : the characters the first replace of normalize turns into ' '
IsStripped(c) == c \notin (LowerChars \cup DigitChars \cup WhitespaceChars \cup {","})

replaceStripped(text) == [i \in 1..Len(text) |-> IF IsStripped(text[i]) THEN " " ELSE text[i]]

\* replace(/\s+/g, ' ') : every maximal run of whitespace becomes one space
collapseWhitespace(text) ==
    LET keep == SelectSeq([i \in 1..Len(text) |-> i],
                          LAMBDA i : ~(text[i] \in WhitespaceChars /\ i > 1
                                       /\ text[i-1] \in WhitespaceChars))
    IN [k \in 1..Len(keep) |->
            IF text[keep[k]] \in WhitespaceChars THEN " " ELSE text[keep[k]]]

\* String.prototype.trim
trim(text) ==
    LET solid == {i \in 1..Len(text) : text[i] \notin WhitespaceChars}
    IN IF solid = {} THEN <<>>
       ELSE LET lo == CHOOSE i \in solid : \A j \in solid : i <= j
                hi == CHOOSE i \in solid : \A j \in solid : j <= i
            IN SubSeq(text, lo, hi)

\* String.prototype.split(',')
split(text) ==
    LET commas == {i \in 1..Len(text) : text[i] = ","}
        n == Cardinality(commas)
        \* position of the k-th comma; 0 before the first, Len+1 after the last
        at(k) == IF k = 0 THEN 0
                 ELSE IF k = n + 1 THEN Len(text) + 1
                 ELSE CHOOSE p \in commas : Cardinality({q \in commas : q < p}) = k - 1
    IN [k \in 1..(n + 1) |-> SubSeq(text, at(k - 1) + 1, at(k) - 1)]

\* a whole-word search: the needle must be bounded by spaces or the text's ends
includes_WholeWord(hay, needle) ==
    \E i \in 0..(Len(hay) - Len(needle)) :
        /\ SubSeq(hay, i + 1, i + Len(needle)) = needle
        /\ (i = 0 \/ hay[i] = " ")
        /\ (i + Len(needle) = Len(hay) \/ hay[i + Len(needle) + 1] = " ")

\* the resume text lower-cased and trimmed only, as the skills are
normalize_LowerTrimOnly(text) == trim(toLowerCase(text))

\* const normalize = (text) => text.toLowerCase().replace(/[^a-z0-9\s,]/g, ' ')
\*                                 .replace(/\s+/g, ' ').trim()
normalize(text) == trim(collapseWhitespace(replaceStripped(toLowerCase(text))))

\* String.prototype.includes
includes(hay, needle) ==
    \E i \in 0..(Len(hay) - Len(needle)) : SubSeq(hay, i + 1, i + Len(needle)) = needle

\* the skill list with every skill kept once, at its first place
parseSkills_Deduplicated(jobSkillsString) ==
    LET parts == split(toLowerCase(jobSkillsString))
        trimmed == [k \in 1..Len(parts) |-> trim(parts[k])]
        kept == SelectSeq([k \in 1..Len(parts) |-> k],
                          LAMBDA k : Len(trimmed[k]) > 0
                                     /\ \A j \in 1..(k - 1) : trimmed[j] # trimmed[k])
    IN [k \in 1..Len(kept) |-> trimmed[kept[k]]]

\* .toLowerCase().split(',').map(skill => skill.trim()).filter(skill => skill.length > 0)
parseSkills(jobSkillsString) ==
    LET parts == split(toLowerCase(jobSkillsString))
        trimmed == [k \in 1..Len(parts) |-> trim(parts[k])]
    IN SelectSeq(trimmed, LAMBDA skill : Len(skill) > 0)

\* ------------------------------------------------------------------------
\* Number arithmetic of the score: IEEE-754 binary64, round to nearest even.
\* A positive Number is [sig, frac]: sig holds the 53 significand bits as five
\* digits <<d0, d1, d2, d3, d4>>, d0 = 1 the leading bit and d1..d4 thirteen
\* bits each, and the value is (sig read as a binary integer) / 2^frac.
\* ------------------------------------------------------------------------
FZero == [sig |-> <<>>, frac |-> 0]

Pow2(k) == <<1, 2, 4, 8, 16, 32, 64, 128, 256, 512, 1024, 2048, 4096, 8192, 16384>>[k + 1]

Digit == Pow2(13)

\* sig + 1; <<2, 0, 0, 0, 0>> when every bit was 1
Increment(sig) ==
    LET low == {i \in 2..5 : sig[i] < Digit - 1}
    IN IF low = {} THEN <<2, 0, 0, 0, 0>>
       ELSE LET j == CHOOSE i \in low : \A z \in low : z <= i
            IN [i \in 1..5 |-> IF i < j THEN sig[i] ELSE IF i = j THEN sig[i] + 1 ELSE 0]

\* The binary64 value nearest to (sig + t) / 2^frac, where 0 <= t < 1 and
\* above says t > 1/2, half says t = 1/2: ties go to the even significand.
RoundToDouble(sig, frac, above, half) ==
    LET up == above \/ (half /\ sig[5] % 2 = 1)
        m == IF up THEN Increment(sig) ELSE sig
    IN IF m[1] = 2 THEN [sig |-> <<1, 0, 0, 0, 0>>, frac |-> frac - 1]
       ELSE [sig |-> m, frac |-> frac]

\* a / b as a Number, for integers 0 <= a <= b, 0 < b < 2^13: long division
\* of a * 2^s by b, thirteen quotient bits at a time
FDiv(a, b) ==
    IF a = 0 THEN FZero
    ELSE LET s == CHOOSE k \in 0..13 : a * Pow2(k) >= b /\ (k = 0 \/ a * Pow2(k - 1) < b)
             r0 == a * Pow2(s) - b
             d1 == (r0 * Digit) \div b
             r1 == (r0 * Digit) % b
             d2 == (r1 * Digit) \div b
             r2 == (r1 * Digit) % b
             d3 == (r2 * Digit) \div b
             r3 == (r2 * Digit) % b
             d4 == (r3 * Digit) \div b
             r4 == (r3 * Digit) % b
         IN RoundToDouble(<<1, d1, d2, d3, d4>>, s + 52, 2 * r4 > b, 2 * r4 = b)

\* x * c as a Number, for an integer 2 <= c < 2^13: the exact product digit
\* by digit, then its leading 53 bits rounded
FMul(x, c) ==
    IF x = FZero THEN FZero
    ELSE LET t4 == x.sig[5] * c
             t3 == (x.sig[4] * c) + (t4 \div Digit)
             t2 == (x.sig[3] * c) + (t3 \div Digit)
             t1 == (x.sig[2] * c) + (t2 \div Digit)
             t0 == (x.sig[1] * c) + (t1 \div Digit)
             p == <<t0, t1 % Digit, t2 % Digit, t3 % Digit, t4 % Digit>>
             \* the product has d bits more than a significand
             d == CHOOSE k \in 1..13 : Pow2(k) <= t0 /\ t0 < Pow2(k + 1)
             shifted(i) == (p[i] \div Pow2(d)) + ((p[i - 1] % Pow2(d)) * Pow2(13 - d))
             dropped == p[5] % Pow2(d)
         IN RoundToDouble(<<t0 \div Pow2(d), shifted(2), shifted(3), shifted(4), shifted(5)>>,
                          x.frac - d, dropped > Pow2(d - 1), dropped = Pow2(d - 1))

\* Math.round: the nearest integer, a tie going up; for 0 <= x < 2^13
MathRound(x) ==
    IF x = FZero THEN 0
    ELSE LET k == 53 - x.frac                      \* bits before the binary point
             top == x.sig[1] * Digit + x.sig[2]    \* the leading 14 bits
         IN IF k < 0 THEN 0
            ELSE (top \div Pow2(14 - k)) + ((top \div Pow2(13 - k)) % 2)

\* ------------------------------------------------------------------------
\* matchResumeToJob
\* ------------------------------------------------------------------------
\* the percentage cut off below the point instead of rounded
matchScoreOf_Truncating(matchedLen, requiredLen) == (100 * matchedLen) \div requiredLen

\* Math.round((matchedSkills.length / requiredSkills.length) * 100)
matchScoreOf(matchedLen, requiredLen) == MathRound(FMul(FDiv(matchedLen, requiredLen), 100))

\* the forEach loop: the skills pushed to matchedSkills
matchedOf(normalizedResume, requiredSkills) ==
    SelectSeq(requiredSkills, LAMBDA skill : includes(normalizedResume, skill))

\* the loop without its else: every skill is pushed to missingSkills
missingOf_NoElse(normalizedResume, requiredSkills) == requiredSkills

\* the forEach loop: the skills pushed to missingSkills
missingOf(normalizedResume, requiredSkills) ==
    SelectSeq(requiredSkills, LAMBDA skill : ~includes(normalizedResume, skill))

\* matchResumeToJob without the early return for an empty skill list
matchResumeToJob_NoEmptyCase(resumeText, jobSkillsString) ==
    LET normalizedResume == normalize(resumeText)
        requiredSkills == parseSkills(jobSkillsString)
    IN [matchScore |-> matchScoreOf(Len(matchedOf(normalizedResume, requiredSkills)),
                                    Len(requiredSkills)),
        matchedSkills |-> matchedOf(normalizedResume, requiredSkills),
        missingSkills |-> missingOf(normalizedResume, requiredSkills)]

matchResumeToJob(resumeText, jobSkillsString) ==
    LET normalizedResume == normalize(resumeText)
        requiredSkills == parseSkills(jobSkillsString)
        matchedSkills == matchedOf(normalizedResume, requiredSkills)
        missingSkills == missingOf(normalizedResume, requiredSkills)
    IN IF Len(requiredSkills) = 0
       THEN [matchScore |-> 100, matchedSkills |-> <<>>, missingSkills |-> <<>>]
       ELSE [matchScore |-> matchScoreOf(Len(matchedSkills), Len(requiredSkills)),
             matchedSkills |-> matchedSkills,
             missingSkills |-> missingSkills]

\* ------------------------------------------------------------------------
\* The Firestore collections
\* ------------------------------------------------------------------------
UserIds == 1..MaxUsers
JobIds == {1}

NoDoc == [exists |-> FALSE]

\* the text a successful upload can extract, and the skills a recruiter can type
ResumeTexts == {<<"a">>, <<"a", " ", "b">>}
JobSkillsInputs == {<<"a">>, <<"a", ",", "b">>}
JobTitles == {"", "dev"}
Roles == {"Job Seeker", "Recruiter"}

\* a resume document written by the earlier upload handler, which stores the
\* parser's text unchecked: the text can be empty
LegacyResumeDoc == [exists |-> TRUE, resumeText |-> <<>>]

\* nothing stored yet
EmptyStore ==
    /\ jobs = [j \in JobIds |-> NoDoc]
    /\ nextJobId = 0
    /\ resumes = [u \in UserIds |-> NoDoc]
    /\ users = [u \in UserIds |-> NoDoc]

\* any content the store actions below can leave behind, all job ids used up
AnyStore ==
    /\ jobs \in [JobIds -> {NoDoc} \cup {[exists |-> TRUE, title |-> "dev", skills |-> sk,
                                          recruiterId |-> 1] : sk \in JobSkillsInputs}]
    /\ nextJobId = Cardinality(JobIds)
    /\ resumes \in [UserIds -> {NoDoc} \cup {[exists |-> TRUE, resumeText |-> t] :
                                              t \in ResumeTexts}]
    /\ users \in [UserIds -> {NoDoc} \cup {[exists |-> TRUE, email |-> u, role |-> ro] :
                                            u \in UserIds, ro \in Roles}]
    /\ \A u \in UserIds : users[u].exists => users[u].email = u

\* no DELETE request was sent yet
NoDeleteReq == [sent |-> FALSE, requesterId |-> 0, jobId |-> 0, status |-> 0, message |-> ""]

\* a document id that was never handed out by jobs.add(): ids are
\* generated and are not handed out twice, so a request names an id that
\* was handed out or one that never will be
UnknownJobId == 9

\* jobs.doc(jobId).get()
jobDoc(jobId) == IF jobId \in DOMAIN jobs THEN jobs[jobId] ELSE NoDoc

\* POST /api/jobs
PostJob(title, skills, recruiterId) ==
    /\ title # "" /\ recruiterId \in UserIds
    /\ nextJobId + 1 \in DOMAIN jobs
    /\ nextJobId' = nextJobId + 1
    /\ jobs' = [jobs EXCEPT ![nextJobId + 1] =
                   [exists |-> TRUE, title |-> title, skills |-> skills,
                    recruiterId |-> recruiterId]]
    /\ UNCHANGED <<resumes, users, rankVars, matchVars, genVars, uploadVars, deleteReq, readVars>>

\* DELETE /api/jobs/:jobId
\* (req.params.jobId is all the handler reads; the sender is kept aside)
DeleteJob(requesterId, jobId) ==
    /\ jobId \in 1..nextJobId \cup {UnknownJobId}
    /\ jobs' = [j \in DOMAIN jobs |-> IF j = jobId THEN NoDoc ELSE jobs[j]]
    /\ deleteReq' = [sent |-> TRUE, requesterId |-> requesterId, jobId |-> jobId,
                     status |-> 200, message |-> "Job successfully deleted."]
    /\ UNCHANGED <<nextJobId, resumes, users, rankVars, matchVars, genVars, uploadVars, readVars>>

\* POST /api/resumes/upload, the step that stores the document: docRef.set
\* after the text was extracted and found non-blank
ResumeStored(userId, resumeText) ==
    /\ trim(resumeText) # <<>>
    /\ resumes' = [resumes EXCEPT ![userId] = [exists |-> TRUE, resumeText |-> resumeText]]
    /\ resumes' # resumes
    /\ UNCHANGED <<jobs, nextJobId, users, rankVars, matchVars, genVars, uploadVars, deleteReq, readVars>>

\* signup: setDoc(doc(db, 'users', user.uid), {email, role, createdAt})
Signup(userId, role) ==
    /\ ~users[userId].exists
    /\ users' = [users EXCEPT ![userId] = [exists |-> TRUE, email |-> userId, role |-> role]]
    /\ UNCHANGED <<jobs, nextJobId, resumes, rankVars, matchVars, genVars, uploadVars, deleteReq, readVars>>

\* collection.get(): the documents that exist, in document id order
snapshotDocs(collection, ids) ==
    LET present == SelectSeq([i \in 1..Cardinality(ids) |-> i],
                             LAMBDA i : i \in ids /\ collection[i].exists)
    IN [k \in 1..Len(present) |-> [id |-> present[k], data |-> collection[present[k]]]]

\* ------------------------------------------------------------------------
\* GET /api/applicants/:jobId
\* ------------------------------------------------------------------------
RankReqs == {1}

IdleRank == [pc |-> "idle"]

\* the comparator with its operands swapped: lowest score first
compareApplicants_Ascending(a, b) == a.matchScore - b.matchScore

\* (a, b) => b.matchScore - a.matchScore
compareApplicants(a, b) == b.matchScore - a.matchScore

\* a sort that is not stable: equal elements come out in reverse input order
sortApplicants_Unstable(list) ==
    LET n == Len(list)
        place(i) == Cardinality({j \in 1..n : compareApplicants(list[j], list[i]) < 0})
                    + Cardinality({j \in 1..n : j > i /\ compareApplicants(list[j], list[i]) = 0})
                    + 1
    IN [p \in 1..n |-> list[CHOOSE i \in 1..n : place(i) = p]]

\* Array.prototype.sort with compareApplicants: a stable sort, so an element
\* is placed after the elements that compare before it and after the equal
\* elements that preceded it in the input
sortApplicants(list) ==
    LET n == Len(list)
        place(i) == Cardinality({j \in 1..n : compareApplicants(list[j], list[i]) < 0})
                    + Cardinality({j \in 1..n : j < i /\ compareApplicants(list[j], list[i]) = 0})
                    + 1
    IN [p \in 1..n |-> list[CHOOSE i \in 1..n : place(i) = p]]

\* the role test that lets every user with a user document through
isEligible_AnyRole(usersMap, userId) == usersMap[userId].exists

\* userDetails && userDetails.role === 'Job Seeker'
isEligible(usersMap, userId) ==
    usersMap[userId].exists /\ usersMap[userId].role = "Job Seeker"

\* the for loop over resumesSnapshot.docs: one entry per eligible resume
applicantsOf(jobSkills, resumeDocs, usersMap) ==
    LET eligible == SelectSeq(resumeDocs, LAMBDA d : isEligible(usersMap, d.id))
    IN [k \in 1..Len(eligible) |->
          LET matchResult == matchResumeToJob(eligible[k].data.resumeText, jobSkills)
          IN [userId |-> eligible[k].id,
              email |-> usersMap[eligible[k].id].email,
              matchScore |-> matchResult.matchScore,
              matchedSkills |-> matchResult.matchedSkills]]

\* the handler without its exists check: jobDoc.data() is undefined for a
\* missing job, reading .skills throws and the catch block answers 500
RankReadJob_NoExistsCheck(r, jobId) ==
    /\ rank[r].pc = "idle"
    /\ rank' = [rank EXCEPT ![r] =
           IF jobs[jobId].exists
           THEN [pc |-> "readResumes", jobId |-> jobId, jobSkills |-> jobs[jobId].skills,
                 resumeReads |-> 0, matchCalls |-> 0]
           ELSE [pc |-> "done", jobId |-> jobId, status |-> 500,
                 message |-> "Internal server error during applicant ranking.",
                 resumeReads |-> 0, matchCalls |-> 0]]
    /\ UNCHANGED <<storeVars, page, matchVars, genVars, uploadVars, deleteReq, readVars>>

\* the request arrives and jobs.doc(jobId).get() is answered
RankReadJob(r, jobId) ==
    /\ rank[r].pc = "idle"
    /\ rank' = [rank EXCEPT ![r] =
           IF jobs[jobId].exists
           THEN [pc |-> "readResumes", jobId |-> jobId, jobSkills |-> jobs[jobId].skills,
                 resumeReads |-> 0, matchCalls |-> 0]
           ELSE [pc |-> "done", jobId |-> jobId, status |-> 404, message |-> "Job not found.",
                 resumeReads |-> 0, matchCalls |-> 0]]
    /\ UNCHANGED <<storeVars, page, matchVars, genVars, uploadVars, deleteReq, readVars>>

\* db.collection('resumes').get() is answered
RankReadResumes(r) ==
    /\ rank[r].pc = "readResumes"
    /\ rank' = [rank EXCEPT ![r] =
           [pc |-> "readUsers", jobId |-> rank[r].jobId, jobSkills |-> rank[r].jobSkills,
            resumeDocs |-> snapshotDocs(resumes, UserIds),
            resumeReads |-> rank[r].resumeReads + 1, matchCalls |-> 0]]
    /\ UNCHANGED <<storeVars, page, matchVars, genVars, uploadVars, deleteReq, readVars>>

\* one list shared by all requests: a request starts from what an earlier
\* request left in it
newApplicantsList_Shared(r) ==
    IF \E q \in DOMAIN rank : q # r /\ rank[q].pc = "done" /\ rank[q].status = 200
    THEN rank[CHOOSE q \in DOMAIN rank : q # r /\ rank[q].pc = "done" /\ rank[q].status = 200].body
    ELSE <<>>

\* const applicantsList = [] : every request starts its own empty list
newApplicantsList(r) == <<>>

\* db.collection('users').get() is answered; the list is built, sorted and sent
RankRespond(r) ==
    /\ rank[r].pc = "readUsers"
    /\ LET applicantsList ==
               newApplicantsList(r) \o applicantsOf(rank[r].jobSkills, rank[r].resumeDocs, users)
       IN rank' = [rank EXCEPT ![r] =
              [pc |-> "done", jobId |-> rank[r].jobId, status |-> 200,
               body |-> sortApplicants(applicantsList),
               resumeReads |-> rank[r].resumeReads,
               matchCalls |-> Len(applicantsList) - Len(newApplicantsList(r))]]
    /\ UNCHANGED <<storeVars, page, matchVars, genVars, uploadVars, deleteReq, readVars>>

\* ------------------------------------------------------------------------
\* ApplicantsPage.fetchApplicants
\* ------------------------------------------------------------------------
IdlePage == [pc |-> "idle"]

\* GET /api/jobs/:jobId for the title; a 404 makes axios throw
PageFetchJob(jobId) ==
    /\ page.pc = "idle"
    /\ page' = IF jobs[jobId].exists
               THEN [pc |-> "loading", jobId |-> jobId]
               ELSE [pc |-> "error", jobId |-> jobId]
    /\ UNCHANGED <<storeVars, rank, matchVars, genVars, uploadVars, deleteReq, readVars>>

\* the answer to GET /api/applicants/:jobId arrives: sorted again and shown
PageReceive(r) ==
    /\ page.pc = "loading"
    /\ rank[r].pc = "done" /\ rank[r].jobId = page.jobId
    /\ page' = IF rank[r].status = 200
               THEN [pc |-> "shown", jobId |-> page.jobId, applicants |-> sortApplicants(rank[r].body)]
               ELSE [pc |-> "error", jobId |-> page.jobId]
    /\ UNCHANGED <<storeVars, rank, matchVars, genVars, uploadVars, deleteReq, readVars>>

\* ------------------------------------------------------------------------
\* AI features: POST /api/ai/coverletter, /api/ai/suggestions, /api/ai/interview
\* ------------------------------------------------------------------------
GenReqs == {1}

Ops == {"coverletter", "suggestions", "interview"}

\* a request body without a usable userId (undefined or '')
NoUserId == 0

\* req.body.allJobs: left out, empty, or one job (of which id is used here)
AllJobsInputs ==
    {[defined |-> FALSE, list |-> <<>>],
     [defined |-> TRUE, list |-> <<>>],
     [defined |-> TRUE, list |-> <<[id |-> "1"]>>]}

IdleGen ==
    [pc |-> "idle", op |-> "", userId |-> NoUserId,
     allJobs |-> [defined |-> FALSE, list |-> <<>>],
     resumeText |-> <<>>, calls |-> 0, text |-> "", status |-> 0, message |-> "",
     body |-> <<>>]

GenOff ==
    /\ gen = [r \in GenReqs |-> IdleGen]
    /\ gemini = [apiKey |-> TRUE, canvasMode |-> FALSE]

\* the message of the 400 answer
missingInputMessage(op) ==
    IF op = "suggestions" THEN "User ID and available jobs are required."
    ELSE "User ID is required."

\* the message of the 404 answer
resumeRequiredMessage(op) ==
    CASE op = "coverletter" -> "Please upload your resume first to generate a cover letter."
      [] op = "suggestions" -> "Please upload your resume first for personalized recommendations."
      [] op = "interview" -> "Please upload your resume first to generate interview questions."

\* the message of the 500 answer
generationFailedMessage(op) ==
    CASE op = "coverletter" -> "Failed to generate cover letter via AI."
      [] op = "suggestions" -> "Failed to fetch suggestions via AI."
      [] op = "interview" -> "Failed to generate interview questions via AI."

\* !userId, and for suggestions !allJobs || allJobs.length === 0
inputsMissing(op, userId, allJobs) ==
    \/ userId = NoUserId
    \/ op = "suggestions" /\ (~allJobs.defined \/ Len(allJobs.list) = 0)

\* the resume check with the text test left out
hasResume_ExistsOnly(resumeDoc) == resumeDoc.exists

\* !(!resumeDoc.exists || !resumeDoc.data().resumeText)
hasResume(resumeDoc) == resumeDoc.exists /\ resumeDoc.resumeText # <<>>

\* what the fetch to the generative-language API can come to: a rejection
\* (network, non-JSON answer), or a JSON answer with or without text in its
\* first candidate
GeminiTexts ==
    {"", "Dear team", "{}", "3", "\"1\"", "null",
     "[\"1\"]", "[\"9\"]", "[\"1\",\"1\",\"1\",\"1\"]"}

GeminiReplies ==
    {[rejected |-> TRUE, hasText |-> FALSE, text |-> ""],
     [rejected |-> FALSE, hasText |-> FALSE, text |-> ""]}
    \cup {[rejected |-> FALSE, hasText |-> TRUE, text |-> t] : t \in GeminiTexts}

\* generateGeminiContent throws with this reply
noUsableText_EmptyAllowed(reply) == reply.rejected \/ ~reply.hasText

\* generateGeminiContent throws: the fetch or response.json() rejected, or !text
noUsableText(reply) == reply.rejected \/ ~reply.hasText \/ reply.text = ""

\* a parsed JSON value: its type, and its items when it is an array
jsonValue(type, items) == [type |-> type, items |-> items]

\* JSON.parse(jsonResponse.trim()) on the texts above: a value, or a throw
jsonParse(text) ==
    CASE text = "{}" -> [threw |-> FALSE, value |-> jsonValue("object", <<>>)]
      [] text = "3" -> [threw |-> FALSE, value |-> jsonValue("number", <<>>)]
      [] text = "\"1\"" -> [threw |-> FALSE, value |-> jsonValue("string", <<>>)]
      [] text = "null" -> [threw |-> FALSE, value |-> jsonValue("null", <<>>)]
      [] text = "[\"1\"]" -> [threw |-> FALSE, value |-> jsonValue("array", <<"1">>)]
      [] text = "[\"9\"]" -> [threw |-> FALSE, value |-> jsonValue("array", <<"9">>)]
      [] text = "[\"1\",\"1\",\"1\",\"1\"]" ->
             [threw |-> FALSE, value |-> jsonValue("array", <<"1", "1", "1", "1">>)]
      [] OTHER -> [threw |-> TRUE, value |-> jsonValue("undefined", <<>>)]

\* Array.isArray
isArray(value) == value.type = "array"

\* recommendedIds with a parse failure passed on to the outer catch
recommendedIdsOf_Propagating(jsonResponse) ==
    IF jsonParse(jsonResponse).threw \/ ~isArray(jsonParse(jsonResponse).value)
    THEN [status |-> 500, suggestions |-> jsonValue("undefined", <<>>)]
    ELSE [status |-> 200, suggestions |-> jsonParse(jsonResponse).value]

\* the inner try/catch of the suggestions handler: the parsed array, or []
\* when the text does not parse or the value is not an array
recommendedIdsOf(jsonResponse) ==
    IF jsonParse(jsonResponse).threw \/ ~isArray(jsonParse(jsonResponse).value)
    THEN [status |-> 200, suggestions |-> jsonValue("array", <<>>)]
    ELSE [status |-> 200, suggestions |-> jsonParse(jsonResponse).value]

\* the handler up to its first await: input validation, then the resume read
\* is issued
GenReceive(r, op, userId, allJobs) ==
    /\ gen[r].pc = "idle"
    /\ gen' = [gen EXCEPT ![r] =
                  IF inputsMissing(op, userId, allJobs)
                  THEN [@ EXCEPT !.pc = "done", !.op = op, !.userId = userId,
                                 !.allJobs = allJobs, !.status = 400,
                                 !.message = missingInputMessage(op)]
                  ELSE [@ EXCEPT !.pc = "readResume", !.op = op, !.userId = userId,
                                 !.allJobs = allJobs]]
    /\ UNCHANGED <<storeVars, rankVars, matchVars, gemini, uploadVars, deleteReq, readVars>>

\* the resume document arrives: the 404 answer, or the prompt is built and
\* generateGeminiContent runs up to its fetch (it throws before the fetch when
\* no API key is configured, and the handler's catch answers 500)
GenReadResume(r) ==
    /\ gen[r].pc = "readResume"
    /\ LET resumeDoc == resumes[gen[r].userId] IN
       gen' = [gen EXCEPT ![r] =
                  IF ~hasResume(resumeDoc)
                  THEN [@ EXCEPT !.pc = "done", !.status = 404,
                                 !.message = resumeRequiredMessage(gen[r].op)]
                  ELSE IF ~gemini.apiKey /\ ~gemini.canvasMode
                  THEN [@ EXCEPT !.pc = "done", !.resumeText = resumeDoc.resumeText,
                                 !.status = 500, !.message = generationFailedMessage(gen[r].op)]
                  ELSE [@ EXCEPT !.pc = "awaitGemini", !.resumeText = resumeDoc.resumeText,
                                 !.calls = @ + 1]]
    /\ UNCHANGED <<storeVars, rankVars, matchVars, gemini, uploadVars, deleteReq, readVars>>

\* the fetch settles, and a reply without usable text is answered by one
\* more call
GenReply_Retrying(r, reply) ==
    /\ gen[r].pc = "awaitGemini"
    /\ gen' = [gen EXCEPT ![r] =
                  IF noUsableText(reply) /\ gen[r].calls < 2
                  THEN [@ EXCEPT !.calls = @ + 1]
                  ELSE IF noUsableText(reply)
                  THEN [@ EXCEPT !.pc = "done", !.status = 500,
                                 !.message = generationFailedMessage(gen[r].op)]
                  ELSE [@ EXCEPT !.pc = "done", !.text = reply.text, !.status = 200,
                                 !.body = [text |-> reply.text]]]
    /\ UNCHANGED <<storeVars, rankVars, matchVars, gemini, uploadVars, deleteReq, readVars>>

\* the fetch settles: the rest of generateGeminiContent and of the handler
GenReply(r, reply) ==
    /\ gen[r].pc = "awaitGemini"
    /\ gen' = [gen EXCEPT ![r] =
                  IF noUsableText(reply)
                  THEN [@ EXCEPT !.pc = "done", !.status = 500,
                                 !.message = generationFailedMessage(gen[r].op)]
                  ELSE IF gen[r].op = "suggestions"
                  THEN [@ EXCEPT !.pc = "done", !.text = reply.text,
                                 !.status = recommendedIdsOf(reply.text).status,
                                 !.message =
                                    IF recommendedIdsOf(reply.text).status = 200 THEN ""
                                    ELSE generationFailedMessage(gen[r].op),
                                 !.body = [suggestions |->
                                              recommendedIdsOf(reply.text).suggestions]]
                  ELSE [@ EXCEPT !.pc = "done", !.text = reply.text, !.status = 200,
                                 !.body = [text |-> reply.text]]]
    /\ UNCHANGED <<storeVars, rankVars, matchVars, gemini, uploadVars, deleteReq, readVars>>

\* ------------------------------------------------------------------------
\* POST /api/resumes/upload: multer's disk storage, then the handler
\* ------------------------------------------------------------------------
UploadReqs == {1, 2}

\* the values Date.now() takes
Stamps == {0, 1}

MimeTypes ==
    {"application/pdf",
     "application/vnd.openxmlformats-officedocument.wordprocessingml.document",
     "text/plain",
     "image/png"}

\* the bytes of an uploaded file: none, a space, the letter a
Payloads == {<<>>, <<32>>, <<97>>}

\* uploads/<userId>-<Date.now()><extension>: req.body.userId as multer has
\* it when the file part starts (NoUserId, printed "undefined", when the
\* userId field comes after the file), and the time; all uploads are taken
\* to carry the same extension
fileName(seenUserId, stamp) == [owner |-> seenUserId, stamp |-> stamp]

Paths == {fileName(u, t) : u \in UserIds \cup {NoUserId}, t \in Stamps}

NoFile == [exists |-> FALSE]

IdleUpload ==
    [pc |-> "idle", userId |-> NoUserId, hasFile |-> FALSE, mimetype |-> "",
     filePath |-> fileName(NoUserId, 0), dataBuffer |-> <<>>, read |-> FALSE,
     resumeText |-> <<>>, uploadedAt |-> 0, status |-> 0, message |-> ""]

UploadOff ==
    /\ upload = [r \in UploadReqs |-> IdleUpload]
    /\ files = [p \in Paths |-> NoFile]
    /\ now = 0

MissingUploadInput == "User ID or file is missing."
UnsupportedFileType == "Unsupported file type. Please use PDF, DOCX, or TXT."
CouldNotExtract ==
    "Could not extract text from the document. Please ensure the file is not corrupted."
UploadedMessage == "Resume uploaded and processed successfully."
\* error.message of what fs.readFileSync, pdf / mammoth and docRef.set throw
ReadError == "ENOENT: no such file or directory"
ParserError == "parser error"
StorageError == "storage error"

\* `Processing failed: ${error.message}`
processingFailed(errorMessage) == "Processing failed: " \o errorMessage

\* dataBuffer.toString('utf-8')
toStringUtf8(dataBuffer) ==
    [i \in 1..Len(dataBuffer) |-> IF dataBuffer[i] = 32 THEN " " ELSE "a"]

\* what pdf(dataBuffer) or mammoth.extractRawText can come to: a rejection,
\* or some text; no text other than '' comes out of no bytes
ParsedTexts == {<<>>, <<" ">>, <<"a">>}

parseOutcomes(dataBuffer) ==
    {[threw |-> TRUE, text |-> <<>>]}
    \cup {[threw |-> FALSE, text |-> t] :
            t \in IF dataBuffer = <<>> THEN {<<>>} ELSE ParsedTexts}

\* the blank check that lets whitespace through
isBlank_EmptyOnly(resumeText) == resumeText = <<>>

\* !resumeText.trim()
isBlank(resumeText) == trim(resumeText) = <<>>

\* the catch block: the file is unlinked if it is there, and 500 is sent
uploadFails(r, req, errorMessage) ==
    /\ files' = [files EXCEPT ![req.filePath] = NoFile]
    /\ upload' = [upload EXCEPT ![r] = [req EXCEPT !.pc = "done", !.status = 500,
                                             !.message = processingFailed(errorMessage)]]
    /\ UNCHANGED <<resumes, now>>

\* the text is there: the blank check, then docRef.set is called
uploadExtracted(r, req, resumeText) ==
    IF isBlank(resumeText)
    THEN uploadFails(r, [req EXCEPT !.resumeText = resumeText], CouldNotExtract)
    ELSE /\ upload' = [upload EXCEPT ![r] =
                          [req EXCEPT !.pc = "writing", !.resumeText = resumeText,
                                      !.uploadedAt = now]]
         /\ UNCHANGED <<resumes, files, now>>

\* upload.single('resume'): multer names the file and writes it to disk
\* (over a file of the same name), and req.body and req.file are filled in;
\* the requests are numbered in the order they come in
UploadTransport(r, userId, seenUserId, hasFile, mimetype, payload) ==
    /\ upload[r].pc = "idle"
    /\ \A q \in UploadReqs : q < r => upload[q].pc # "idle"
    /\ seenUserId \in {userId, NoUserId}
    /\ IF hasFile
       THEN /\ upload' = [upload EXCEPT ![r] =
                             [@ EXCEPT !.pc = "received", !.userId = userId, !.hasFile = TRUE,
                                       !.mimetype = mimetype,
                                       !.filePath = fileName(seenUserId, now)]]
            /\ files' = [files EXCEPT ![fileName(seenUserId, now)] =
                            [exists |-> TRUE, bytes |-> payload]]
       ELSE /\ upload' = [upload EXCEPT ![r] = [@ EXCEPT !.pc = "received", !.userId = userId]]
            /\ UNCHANGED files
    /\ UNCHANGED <<resumes, now>>
    /\ UNCHANGED <<jobs, nextJobId, users, rankVars, matchVars, genVars, deleteReq, readVars>>

\* a dispatch that takes any other type for text
extractorOf_TextByDefault(fileMimeType) ==
    CASE fileMimeType = "application/pdf" -> "pdf"
      [] fileMimeType = "application/vnd.openxmlformats-officedocument.wordprocessingml.document"
             -> "mammoth"
      [] OTHER -> "toString"

\* the if / else if chain on req.file.mimetype
extractorOf(fileMimeType) ==
    CASE fileMimeType = "application/pdf" -> "pdf"
      [] fileMimeType = "application/vnd.openxmlformats-officedocument.wordprocessingml.document"
             -> "mammoth"
      [] fileMimeType = "text/plain" -> "toString"
      [] OTHER -> "unsupported"

\* the handler up to its first await
UploadHandle(r) ==
    /\ upload[r].pc = "received"
    /\ LET req == upload[r]
           file == files[req.filePath]
           read == [req EXCEPT !.dataBuffer = file.bytes, !.read = TRUE]
       IN IF req.userId = NoUserId \/ ~req.hasFile
          THEN /\ upload' = [upload EXCEPT ![r] =
                                [req EXCEPT !.pc = "done", !.status = 400,
                                            !.message = MissingUploadInput]]
               /\ UNCHANGED <<resumes, files, now>>
          ELSE IF ~file.exists
          THEN uploadFails(r, req, ReadError)
          ELSE IF extractorOf(req.mimetype) \in {"pdf", "mammoth"}
          THEN /\ upload' = [upload EXCEPT ![r] = [read EXCEPT !.pc = "parsing"]]
               /\ UNCHANGED <<resumes, files, now>>
          ELSE IF extractorOf(req.mimetype) = "toString"
          THEN uploadExtracted(r, read, toStringUtf8(file.bytes))
          ELSE uploadFails(r, read, UnsupportedFileType)
    /\ UNCHANGED <<jobs, nextJobId, users, rankVars, matchVars, genVars, deleteReq, readVars>>

\* pdf(dataBuffer) or mammoth.extractRawText settles
UploadParsed(r) ==
    /\ upload[r].pc = "parsing"
    /\ \E outcome \in parseOutcomes(upload[r].dataBuffer) :
          IF outcome.threw
          THEN uploadFails(r, upload[r], ParserError)
          ELSE uploadExtracted(r, upload[r], outcome.text)
    /\ UNCHANGED <<jobs, nextJobId, users, rankVars, matchVars, genVars, deleteReq, readVars>>

\* the document written by the upload
resumeData(req) ==
    [exists |-> TRUE, userId |-> req.userId, resumeText |-> req.resumeText,
     uploadedAt |-> req.uploadedAt, filePath |-> req.filePath]

\* a merge that keeps the file path of the document that is there
mergeSet_KeepFilePath(doc, data) ==
    [f \in DOMAIN doc \cup DOMAIN data |->
        IF f \in DOMAIN data /\ ~(f = "filePath" /\ f \in DOMAIN doc) THEN data[f] ELSE doc[f]]

\* docRef.set(data, {merge: true}): the fields of data replace those of the
\* document, its other fields stay
mergeSet(doc, data) ==
    [f \in DOMAIN doc \cup DOMAIN data |-> IF f \in DOMAIN data THEN data[f] ELSE doc[f]]

\* a rejected write that was applied all the same
writtenDoc_AlsoOnReject(ok, doc, data) == mergeSet(doc, data)

\* the document after docRef.set settled: written, or as it was when the
\* write was rejected
writtenDoc(ok, doc, data) == IF ok THEN mergeSet(doc, data) ELSE doc

\* docRef.set settles: resolved (200) or rejected (the catch block)
UploadWriteSettles(r, ok) ==
    /\ upload[r].pc = "writing"
    /\ resumes' = [resumes EXCEPT ![upload[r].userId] = writtenDoc(ok, @, resumeData(upload[r]))]
    /\ upload' = [upload EXCEPT ![r] =
                     IF ok THEN [@ EXCEPT !.pc = "done", !.status = 200, !.message = UploadedMessage]
                     ELSE [@ EXCEPT !.pc = "done", !.status = 500,
                                    !.message = processingFailed(StorageError)]]
    /\ files' = IF ok THEN files ELSE [files EXCEPT ![upload[r].filePath] = NoFile]
    /\ UNCHANGED <<jobs, nextJobId, users, now, rankVars, matchVars, genVars, deleteReq, readVars>>

\* time passes
Tick ==
    /\ now + 1 \in Stamps
    /\ now' = now + 1
    /\ UNCHANGED <<storeVars, upload, files, rankVars, matchVars, genVars, deleteReq, readVars>>

\* ------------------------------------------------------------------------
\* GET /api/jobs/:jobId and GET /api/match/:jobId/:userId
\* ------------------------------------------------------------------------
MatchReqs == {1, 2}

IdleMatchReq == [pc |-> "idle"]
NoLookup == [sent |-> FALSE]

jobNotFoundMessage == "Job not found."
resumeNotFoundMessage == "Resume not found for this user."

\* GET /api/jobs/:jobId
JobLookup(jobId) ==
    /\ lookup' = IF jobDoc(jobId).exists
                 THEN [sent |-> TRUE, jobId |-> jobId, status |-> 200,
                       body |-> [id |-> jobId, title |-> jobDoc(jobId).title,
                                 skills |-> jobDoc(jobId).skills,
                                 recruiterId |-> jobDoc(jobId).recruiterId]]
                 ELSE [sent |-> TRUE, jobId |-> jobId, status |-> 404,
                       message |-> jobNotFoundMessage]
    /\ UNCHANGED <<storeVars, rankVars, matchVars, genVars, uploadVars, deleteReq, matchReq, view>>

\* a client sends GET /api/match/:jobId/:userId
MatchSend(r, jobId, userId) ==
    /\ matchReq[r].pc = "idle"
    /\ matchReq' = [matchReq EXCEPT ![r] = [pc |-> "sent", jobId |-> jobId, userId |-> userId]]
    /\ UNCHANGED <<storeVars, rankVars, matchVars, genVars, uploadVars, deleteReq, lookup, view>>

\* the handler going on to the resume whether or not the job is there
MatchReadJob_NoExistsCheck(r) ==
    /\ matchReq[r].pc = "sent"
    /\ matchReq' = [matchReq EXCEPT ![r] =
           [pc |-> "readResume", jobId |-> matchReq[r].jobId, userId |-> matchReq[r].userId,
            jobSkills |-> IF jobDoc(matchReq[r].jobId).exists
                          THEN jobDoc(matchReq[r].jobId).skills ELSE <<>>]]
    /\ UNCHANGED <<storeVars, rankVars, matchVars, genVars, uploadVars, deleteReq, lookup, view>>

\* the request arrives and jobs.doc(jobId).get() is answered
MatchReadJob(r) ==
    /\ matchReq[r].pc = "sent"
    /\ matchReq' = [matchReq EXCEPT ![r] =
           IF jobDoc(matchReq[r].jobId).exists
           THEN [pc |-> "readResume", jobId |-> matchReq[r].jobId, userId |-> matchReq[r].userId,
                 jobSkills |-> jobDoc(matchReq[r].jobId).skills]
           ELSE [pc |-> "done", jobId |-> matchReq[r].jobId, userId |-> matchReq[r].userId,
                 status |-> 404, message |-> jobNotFoundMessage]]
    /\ UNCHANGED <<storeVars, rankVars, matchVars, genVars, uploadVars, deleteReq, lookup, view>>

\* the answer of the match request, from the resume document read
matchAnswer(req, resumeDoc) ==
    IF hasResume(resumeDoc)
    THEN [pc |-> "done", jobId |-> req.jobId, userId |-> req.userId, status |-> 200,
          body |-> matchResumeToJob(resumeDoc.resumeText, req.jobSkills)]
    ELSE [pc |-> "done", jobId |-> req.jobId, userId |-> req.userId, status |-> 404,
          message |-> resumeNotFoundMessage]

\* the handler keeping the normalised text in the resume document it read
MatchReadResume_Caching(r) ==
    /\ matchReq[r].pc = "readResume"
    /\ matchReq' = [matchReq EXCEPT ![r] = matchAnswer(matchReq[r], resumes[matchReq[r].userId])]
    /\ resumes' = [resumes EXCEPT ![matchReq[r].userId] =
                      IF hasResume(@) THEN [@ EXCEPT !.resumeText = normalize(@)] ELSE @]
    /\ UNCHANGED <<jobs, nextJobId, users, rankVars, matchVars, genVars, uploadVars, deleteReq,
                   lookup, view>>

\* resumes.doc(userId).get() is answered: the answer is sent
MatchReadResume(r) ==
    /\ matchReq[r].pc = "readResume"
    /\ matchReq' = [matchReq EXCEPT ![r] = matchAnswer(matchReq[r], resumes[matchReq[r].userId])]
    /\ UNCHANGED <<storeVars, rankVars, matchVars, genVars, uploadVars, deleteReq, lookup, view>>

\* ------------------------------------------------------------------------
\* The MatchAnalysis component
\* ------------------------------------------------------------------------
\* a missing jobId prop
NoJobId == 0

NoAnalysis == [none |-> TRUE]
NoAnswer == [arrived |-> FALSE]

cannotAnalyseMessage == "Cannot perform analysis without a job or user."
analysisNotPerformedMessage ==
    "Analysis could not be performed. Please ensure you have uploaded a resume."
analysisErrorMessage == "An error occurred while analyzing your match."

\* before the component is mounted: useState(null), useState(true), useState('')
ViewOff ==
    [mounted |-> FALSE, jobId |-> NoJobId, userId |-> NoUserId,
     analysis |-> NoAnalysis, loading |-> TRUE, error |-> "",
     latest |-> 0, answers |-> [r \in MatchReqs |-> NoAnswer], pending |-> {}]

ReadOff ==
    /\ matchReq = [r \in MatchReqs |-> IdleMatchReq]
    /\ lookup = NoLookup
    /\ view = ViewOff

\* useEffect(..., [jobId, currentUser]): the effect runs on mount and when
\* a dependency has changed; with both props it sends the request
ViewEffect(jobId, userId) ==
    /\ ~view.mounted \/ <<jobId, userId>> # <<view.jobId, view.userId>>
    /\ IF jobId = NoJobId \/ userId = NoUserId
       THEN /\ view' = [view EXCEPT !.mounted = TRUE, !.jobId = jobId, !.userId = userId,
                                    !.error = cannotAnalyseMessage, !.loading = FALSE,
                                    !.latest = 0]
            /\ UNCHANGED matchReq
       ELSE \E r \in MatchReqs :
                /\ matchReq[r].pc = "idle"
                /\ \A q \in MatchReqs : q < r => matchReq[q].pc # "idle"
                /\ matchReq' = [matchReq EXCEPT ![r] =
                                   [pc |-> "sent", jobId |-> jobId, userId |-> userId]]
                /\ view' = [view EXCEPT !.mounted = TRUE, !.jobId = jobId, !.userId = userId,
                                        !.loading = TRUE, !.error = "",
                                        !.latest = r, !.pending = @ \cup {r}]
    /\ UNCHANGED <<storeVars, rankVars, matchVars, genVars, uploadVars, deleteReq, lookup>>

\* the awaited axios.get settles, with the server's answer or without one
\* (no response reached the browser): setAnalysis or setError, then
\* setLoading(false)
ViewReceive(r, delivered) ==
    /\ r \in view.pending
    /\ delivered => matchReq[r].pc = "done"
    /\ LET answer == IF delivered
                     THEN [arrived |-> TRUE, status |-> matchReq[r].status,
                           body |-> IF matchReq[r].status = 200
                                    THEN matchReq[r].body ELSE NoAnalysis]
                     ELSE [arrived |-> TRUE, status |-> 0, body |-> NoAnalysis]
       IN view' = [view EXCEPT
                      !.pending = @ \ {r},
                      !.answers[r] = answer,
                      !.analysis = IF answer.status = 200 THEN answer.body ELSE @,
                      !.error = IF answer.status = 200 THEN @
                                ELSE IF answer.status = 404 THEN analysisNotPerformedMessage
                                ELSE analysisErrorMessage,
                      !.loading = FALSE]
    /\ UNCHANGED <<storeVars, rankVars, matchVars, genVars, uploadVars, deleteReq, lookup,
                   matchReq>>

\* what the component renders: the loading line, the error, nothing, or the
\* analysis
displayed ==
    IF view.loading THEN [kind |-> "loading"]
    ELSE IF view.error # "" THEN [kind |-> "error", error |-> view.error]
    ELSE IF view.analysis = NoAnalysis THEN [kind |-> "nothing"]
    ELSE [kind |-> "analysis", analysis |-> view.analysis]

MatchOff ==
    /\ inResume = <<>>
    /\ inSkills = <<>>
    /\ outResult = NoResult
    /\ matchPc = "off"

InitRank ==
    /\ EmptyStore
    /\ rank = [r \in RankReqs |-> IdleRank]
    /\ page = IdlePage
    /\ MatchOff
    /\ GenOff
    /\ UploadOff
    /\ deleteReq = NoDeleteReq
    /\ ReadOff

NextRank ==
    \/ \E title \in JobTitles, skills \in JobSkillsInputs, recruiterId \in UserIds :
           PostJob(title, skills, recruiterId)
    \/ \E requesterId \in UserIds, jobId \in JobIds : DeleteJob(requesterId, jobId)
    \/ \E userId \in UserIds, resumeText \in ResumeTexts : ResumeStored(userId, resumeText)
    \/ \E userId \in UserIds, role \in Roles : Signup(userId, role)
    \/ \E r \in RankReqs, jobId \in JobIds : RankReadJob(r, jobId)
    \/ \E r \in RankReqs : RankReadResumes(r)
    \/ \E r \in RankReqs : RankRespond(r)

SpecRank == InitRank /\ [][NextRank]_vars

\* two ranking requests and the applicants page against a store that does
\* not change meanwhile
TwoRankReqs == {1, 2}

InitRankFixed ==
    /\ AnyStore
    /\ rank = [r \in TwoRankReqs |-> IdleRank]
    /\ page = IdlePage
    /\ MatchOff
    /\ GenOff
    /\ UploadOff
    /\ deleteReq = NoDeleteReq
    /\ ReadOff

NextRankFixed ==
    \/ \E r \in TwoRankReqs, jobId \in JobIds : RankReadJob(r, jobId)
    \/ \E r \in TwoRankReqs : RankReadResumes(r)
    \/ \E r \in TwoRankReqs : RankRespond(r)
    \/ \E jobId \in JobIds : PageFetchJob(jobId)
    \/ \E r \in TwoRankReqs : PageReceive(r)

SpecRankFixed == InitRankFixed /\ [][NextRankFixed]_vars

\* ------------------------------------------------------------------------
\* Matcher runs: one call of matchResumeToJob on chosen arguments
\* ------------------------------------------------------------------------
StringsUpTo(chars, n) == UNION {[1..k -> chars] : k \in 0..n}

Repeat(c, n) == [i \in 1..n |-> c]

\* the skills c, cc, ccc, ... (n of them, all distinct), comma-separated:
\* the comma after the k-th skill is character k(k+1)/2 + k
Ladder(c, n) ==
    IF n = 0 THEN <<>>
    ELSE [i \in 1..(((n * (n + 1)) \div 2) + n - 1) |->
             IF \E k \in 1..(n - 1) : i = ((k * (k + 1)) \div 2) + k THEN "," ELSE c]

\* a skill list with p distinct skills found in the resume Repeat("a", p)
\* and q distinct skills not found in it
GeneratedSkills(p, q) ==
    IF p = 0 THEN Ladder("b", q)
    ELSE IF q = 0 THEN Ladder("a", p)
    ELSE Ladder("a", p) \o <<",">> \o Ladder("b", q)

\* the skill c written n times, comma-separated
RepeatedSkill(c, n) == [i \in 1..(2 * n - 1) |-> IF i % 2 = 1 THEN c ELSE ","]

\* skill lists that repeat a skill, and one with two spaces inside a skill
RepeatingInputs ==
    {[resume |-> r, skills |-> s] :
        r \in {<<"a">>, <<"a", " ", " ", "b">>},
        s \in {<<"a", ",", "a", ",", "b">>, <<"A", ",", "a">>, <<"a", " ", " ", "b">>,
               <<"a", " ", "b">>}}

\* long skill lists: p times the skill a, found in the resume "a", and q
\* times the skill b, not found
LongCounts == {<<199, 1>>, <<1, 200>>, <<1, 198>>, <<198, 1>>}

LongInputs ==
    {[resume |-> <<"a">>,
      skills |-> RepeatedSkill("a", c[1]) \o <<",">> \o RepeatedSkill("b", c[2])] :
        c \in LongCounts}

MatchInputs ==
    {[resume |-> r, skills |-> s] :
        r \in StringsUpTo(ResumeChars, MaxResumeLen), s \in StringsUpTo(SkillsChars, MaxSkillsLen)}
    \cup {[resume |-> Repeat("a", p), skills |-> GeneratedSkills(p, q)] :
        p \in 0..MaxMatched, q \in 0..MaxMissing}
    \cup RepeatingInputs
    \cup LongInputs

InitMatch ==
    /\ \E in \in MatchInputs : inResume = in.resume /\ inSkills = in.skills
    /\ outResult = NoResult
    /\ matchPc = "ready"
    /\ EmptyStore
    /\ rank = [r \in RankReqs |-> IdleRank]
    /\ page = IdlePage
    /\ GenOff
    /\ UploadOff
    /\ deleteReq = NoDeleteReq
    /\ ReadOff

Match ==
    /\ matchPc = "ready"
    /\ outResult' = matchResumeToJob(inResume, inSkills)
    /\ matchPc' = "done"
    /\ UNCHANGED <<inResume, inSkills, storeVars, rankVars, genVars, uploadVars, deleteReq, readVars>>

NextMatch == Match

SpecMatch == InitMatch /\ [][NextMatch]_vars

\* ------------------------------------------------------------------------
\* Properties of the matcher (checked under SpecMatch)
\* ------------------------------------------------------------------------
Range(seq) == {seq[i] : i \in 1..Len(seq)}

MatchDone == matchPc = "done"

\* the text occurs in hay as a run of adjacent characters
IsContiguousIn(text, hay) == \E i, j \in 1..Len(hay) : SubSeq(hay, i, j) = text

\* C1: in every match result the matched and the missing skills together are
\* exactly the parsed required skills, and no skill is in both.
C1_MatchedMissingPartition ==
    MatchDone =>
        /\ Range(outResult.matchedSkills) \cup Range(outResult.missingSkills)
               = Range(parseSkills(inSkills))
        /\ Range(outResult.matchedSkills) \cap Range(outResult.missingSkills) = {}

\* C1 witness: a result with a skill on each side
C1_Witness ==
    /\ MatchDone
    /\ outResult.matchedSkills # <<>>
    /\ outResult.missingSkills # <<>>

\* C2: for a skills string that parses to N >= 1 distinct skills, the two lists
\* hold N skills together and matchScore is 100 * matched / N rounded to the
\* nearest integer, a half going up.
C2_ScoreIsRoundHalfUp ==
    LET required == parseSkills(inSkills)
        N == Len(required)
        m == Len(outResult.matchedSkills)
    IN (MatchDone /\ N >= 1 /\ Cardinality(Range(required)) = N) =>
          /\ m + Len(outResult.missingSkills) = N
          /\ 2 * N * outResult.matchScore <= 200 * m + N
          /\ 200 * m + N < 2 * N * (outResult.matchScore + 1)

\* C3: a skills string made only of commas and whitespace gives exactly
\* matchScore 100 and two empty lists, whatever the resume text.
C3_EmptySkillsPerfectMatch ==
    (MatchDone /\ \A i \in 1..Len(inSkills) : inSkills[i] \in ({","} \cup WhitespaceChars)) =>
        outResult = [matchScore |-> 100, matchedSkills |-> <<>>, missingSkills |-> <<>>]

\* C3 witness: a non-empty skills string without any skill, against the empty resume
C3_Witness ==
    /\ MatchDone
    /\ inSkills = <<" ", ",">>
    /\ inResume = <<>>
    /\ outResult.matchScore = 100

\* C4: a required skill is matched exactly when the normalized resume text
\* holds it as a contiguous substring (word boundaries do not matter), and is
\* missing otherwise.
C4_MatchedIffSubstring ==
    MatchDone =>
        \A skill \in Range(parseSkills(inSkills)) :
            /\ skill \in Range(outResult.matchedSkills)
                   <=> IsContiguousIn(skill, normalize(inResume))
            /\ skill \in Range(outResult.missingSkills)
                   <=> ~IsContiguousIn(skill, normalize(inResume))

\* C4 witness: skill "a" matched inside the longer word "ab"
C4_Witness ==
    /\ MatchDone
    /\ inResume = <<"a", "b">>
    /\ inSkills = <<"a">>
    /\ outResult.matchedSkills = <<<<"a">>>>

\* ------------------------------------------------------------------------
\* Properties of the ranking (checked under SpecRank and SpecRankFixed)
\* ------------------------------------------------------------------------
RankAnswered(r) == rank[r].pc = "done" /\ rank[r].status = 200

\* equal scores keep the order of the resumes snapshot, which lists the
\* documents in id order
TiesInSnapshotOrder(list) ==
    \A i, j \in 1..Len(list) :
        (i < j /\ list[i].matchScore = list[j].matchScore) => list[i].userId < list[j].userId

\* C5: the list a ranking request returns is in non-increasing matchScore
\* order: no entry has a lower score than the entry after it.
C5_RankingDescending ==
    \A r \in DOMAIN rank :
        RankAnswered(r) =>
            \A i \in 1..(Len(rank[r].body) - 1) :
                rank[r].body[i].matchScore >= rank[r].body[i + 1].matchScore

\* C5 witness: a list whose first entry comes later in the snapshot than its
\* second entry and scores higher
C5_Witness ==
    \E r \in DOMAIN rank :
        /\ RankAnswered(r)
        /\ Len(rank[r].body) >= 2
        /\ rank[r].body[1].userId > rank[r].body[2].userId
        /\ rank[r].body[1].matchScore > rank[r].body[2].matchScore

\* C6: candidates with equal matchScore appear in the ranking output in the
\* order of their resume records in the snapshot, and the list ApplicantsPage
\* shows after sorting the response again keeps that order.
C6_RankingStable ==
    /\ \A r \in DOMAIN rank : RankAnswered(r) => TiesInSnapshotOrder(rank[r].body)
    /\ page.pc = "shown" =>
           /\ TiesInSnapshotOrder(page.applicants)
           /\ \E r \in DOMAIN rank :
                  RankAnswered(r) /\ rank[r].jobId = page.jobId /\ page.applicants = rank[r].body

\* C6 witness: the page shows a list with two candidates of equal score
C6_Witness ==
    /\ page.pc = "shown"
    /\ Len(page.applicants) >= 2
    /\ page.applicants[1].matchScore = page.applicants[2].matchScore

C8_RankingListsEligible ==
    [][\A r \in DOMAIN rank :
         (rank[r].pc = "readUsers" /\ rank'[r].pc = "done") =>
            LET docs == rank[r].resumeDocs
                body == rank'[r].body
                entriesOf(u) == {i \in 1..Len(body) : body[i].userId = u}
            IN /\ rank'[r].status = 200
               /\ \A k \in 1..Len(docs) :
                     Cardinality(entriesOf(docs[k].id)) =
                         IF users[docs[k].id].exists /\ users[docs[k].id].role = "Job Seeker"
                         THEN 1 ELSE 0
               /\ \A i \in 1..Len(body) :
                     \E k \in 1..Len(docs) :
                        /\ docs[k].id = body[i].userId
                        /\ body[i].matchScore =
                             matchResumeToJob(docs[k].data.resumeText, rank[r].jobSkills).matchScore
                        /\ body[i].matchedSkills =
                             matchResumeToJob(docs[k].data.resumeText, rank[r].jobSkills).matchedSkills
      ]_vars

\* C8 witness: an answered request that lists a job seeker and leaves out a
\* stored resume whose owner is a recruiter
C8_Witness ==
    \E r \in DOMAIN rank :
        /\ RankAnswered(r)
        /\ Len(rank[r].body) >= 1
        /\ \E u \in UserIds :
              /\ resumes[u].exists /\ users[u].exists /\ users[u].role = "Recruiter"
              /\ \A i \in 1..Len(rank[r].body) : rank[r].body[i].userId # u

\* C9: a ranking request whose job id resolves to no stored job is answered
\* 404 'Job not found.' at once: no resume was read, no match was computed,
\* and the answer carries no list.
C9_JobNotFoundFailsFast ==
    [][\A r \in DOMAIN rank :
         (rank[r].pc = "idle" /\ rank'[r].pc # "idle" /\ ~jobs[rank'[r].jobId].exists) =>
            /\ rank'[r].pc = "done"
            /\ rank'[r].status = 404
            /\ rank'[r].message = "Job not found."
            /\ rank'[r].resumeReads = 0
            /\ rank'[r].matchCalls = 0
            /\ "body" \notin DOMAIN rank'[r]
      ]_vars

\* C9 witness: a request answered 404 while resumes of job seekers are stored
C9_Witness ==
    \E r \in DOMAIN rank :
        /\ rank[r].pc = "done" /\ rank[r].status = 404
        /\ \E u \in UserIds : resumes[u].exists /\ users[u].exists /\ users[u].role = "Job Seeker"


\* ------------------------------------------------------------------------
\* AI feature requests against a store that resume uploads keep changing
\* ------------------------------------------------------------------------
InitGen ==
    /\ jobs = [j \in JobIds |-> NoDoc]
    /\ nextJobId = 0
    /\ users = [u \in UserIds |-> NoDoc]
    /\ resumes \in [UserIds -> {NoDoc, LegacyResumeDoc}
                               \cup {[exists |-> TRUE, resumeText |-> t] : t \in ResumeTexts}]
    /\ rank = [r \in RankReqs |-> IdleRank]
    /\ page = IdlePage
    /\ MatchOff
    /\ gen = [r \in GenReqs |-> IdleGen]
    /\ gemini \in [apiKey : BOOLEAN, canvasMode : BOOLEAN]
    /\ UploadOff
    /\ deleteReq = NoDeleteReq
    /\ ReadOff

NextGen ==
    \/ \E userId \in UserIds, resumeText \in ResumeTexts : ResumeStored(userId, resumeText)
    \/ \E r \in GenReqs, op \in Ops, userId \in UserIds \cup {NoUserId},
          allJobs \in AllJobsInputs : GenReceive(r, op, userId, allJobs)
    \/ \E r \in GenReqs : GenReadResume(r)
    \/ \E r \in GenReqs, reply \in GeminiReplies : GenReply(r, reply)

SpecGen == InitGen /\ [][NextGen]_vars

\* ------------------------------------------------------------------------
\* Properties of the AI features (checked under SpecGen)
\* ------------------------------------------------------------------------
\* the candidate has no resume document, or one with empty text
NoStoredResume(userId) ==
    /\ userId \in UserIds
    /\ ~resumes[userId].exists \/ resumes[userId].resumeText = <<>>

\* the request gets its answer in this step
GenFinishes(r) == gen[r].pc # "done" /\ gen'[r].pc = "done"

FailsWithResumeRequired(g) ==
    g.status = 404 /\ g.message = resumeRequiredMessage(g.op)

\* candidate id present, and a non-empty job set for recommendations
InputsGiven(g) ==
    /\ g.userId # NoUserId
    /\ g.op = "suggestions" => g.allJobs.defined /\ g.allJobs.list # <<>>

\* every request that reached the external collaborator had passed all
\* local preconditions
CallsOnlyAfterPreconditions ==
    \A r \in GenReqs : gen[r].calls > 0 => InputsGiven(gen[r]) /\ gen[r].resumeText # <<>>

\* C10 as stated: for each of the three operations a request for a
\* candidate with no stored resume, or with empty stored resume text, is
\* answered with ResumeRequired without any call of the external
\* collaborator, and the collaborator is only called after all local
\* preconditions have passed.  A recommendations request without a job set
\* for such a candidate is answered 400 instead.
C10_AlwaysResumeRequired ==
    /\ [][\A r \in GenReqs :
            GenFinishes(r) /\ NoStoredResume(gen'[r].userId)
                => FailsWithResumeRequired(gen'[r]) /\ gen'[r].calls = 0]_vars
    /\ []CallsOnlyAfterPreconditions

\* C10: for each of the three operations a request that carries a candidate
\* id (and, for recommendations, a non-empty job set) for a candidate with
\* no stored resume, or with empty stored resume text, is answered with
\* ResumeRequired; a request for such a candidate that lacks the job set is
\* answered with the 400 input error; either way the external collaborator
\* is called zero times during the request, and it is only ever called
\* after all local preconditions have passed.
C10_ResumeRequiredAfterInputCheck ==
    /\ [][\A r \in GenReqs :
            GenFinishes(r) /\ NoStoredResume(gen'[r].userId)
                => /\ gen'[r].calls = 0
                   /\ InputsGiven(gen'[r]) => FailsWithResumeRequired(gen'[r])
                   /\ ~InputsGiven(gen'[r]) =>
                          /\ gen'[r].status = 400
                          /\ gen'[r].message = missingInputMessage(gen'[r].op)]_vars
    /\ []CallsOnlyAfterPreconditions

\* C10 witness: a recommendations request with a job set, for a candidate
\* whose stored resume text is empty, answered with ResumeRequired and no
\* call of the collaborator
C10_Witness ==
    \E r \in GenReqs :
        /\ gen[r].pc = "done"
        /\ gen[r].op = "suggestions"
        /\ InputsGiven(gen[r])
        /\ resumes[gen[r].userId] = LegacyResumeDoc
        /\ FailsWithResumeRequired(gen[r])
        /\ gen[r].calls = 0


\* the fetch of request r settles with this reply
GenSettles(r, reply) == gen[r].pc = "awaitGemini" /\ gen'[r].pc = "done" /\ GenReply(r, reply)

\* the reply carries a text, which is not JSON or is JSON for something
\* other than an array
NotAnArray(reply) ==
    /\ ~reply.rejected /\ reply.hasText /\ reply.text # ""
    /\ jsonParse(reply.text).threw \/ jsonParse(reply.text).value.type # "array"

\* C11: in the job-recommendation operation, a collaborator text that is not
\* parseable as JSON, or parses to something that is not an array, does not
\* make the request fail: the answer is 200 with an empty recommendation list.
C11_MalformedGivesEmptyList ==
    [][\A r \in GenReqs, reply \in GeminiReplies :
          GenSettles(r, reply) /\ gen[r].op = "suggestions" /\ NotAnArray(reply)
              => /\ gen'[r].status = 200
                 /\ gen'[r].body = [suggestions |-> jsonValue("array", <<>>)]]_vars

\* C11 witness: recommendations answered 200 with an empty list for the
\* collaborator text {} (JSON, but an object)
C11_Witness ==
    \E r \in GenReqs :
        /\ gen[r].pc = "done" /\ gen[r].op = "suggestions" /\ gen[r].text = "{}"
        /\ gen[r].status = 200
        /\ gen[r].body.suggestions.items = <<>>

\* the collaborator yields no usable text
Unusable(reply) == reply.rejected \/ ~reply.hasText \/ reply.text = ""

\* C12: in all three operations, when the collaborator yields no usable text
\* (rejection, no candidate text, empty text) the request fails with the
\* operation's one generic 500 answer, whatever the cause, never with a 200.
C12_NoTextFailsGeneric ==
    [][\A r \in GenReqs, reply \in GeminiReplies :
          GenSettles(r, reply) /\ Unusable(reply)
              => /\ gen'[r].status = 500
                 /\ gen'[r].message = generationFailedMessage(gen[r].op)]_vars

\* C12 witness: a recommendations request that reached the collaborator and
\* was answered with the generic failure
C12_Witness ==
    \E r \in GenReqs :
        /\ gen[r].pc = "done" /\ gen[r].op = "suggestions" /\ gen[r].calls = 1
        /\ gen[r].status = 500
        /\ gen[r].message = generationFailedMessage("suggestions")

\* the ids of the candidate jobs of a request
SuppliedIds(g) == {g.allJobs.list[k].id : k \in 1..Len(g.allJobs.list)}

\* C13: every recommendation list returned holds at most three identifiers,
\* each the id of one of the jobs supplied in the request.
C13_AtMostThreeSuppliedIds ==
    \A r \in GenReqs :
        gen[r].pc = "done" /\ gen[r].op = "suggestions" /\ gen[r].status = 200
            => /\ Len(gen[r].body.suggestions.items) <= 3
               /\ \A i \in 1..Len(gen[r].body.suggestions.items) :
                      gen[r].body.suggestions.items[i] \in SuppliedIds(gen[r])

\* ------------------------------------------------------------------------
\* AI feature requests with the store answering every read, and a
\* collaborator that may never answer
\* ------------------------------------------------------------------------
SpecGenLive == SpecGen /\ WF_vars(\E r \in GenReqs : GenReadResume(r))

\* C14: every generation request eventually completes, also when the
\* collaborator never responds.
C14_EveryRequestCompletes ==
    \A r \in GenReqs : (gen[r].pc # "idle") ~> (gen[r].pc = "done")


\* ------------------------------------------------------------------------
\* Concurrent resume uploads
\* ------------------------------------------------------------------------
InitUpload ==
    /\ EmptyStore
    /\ rank = [r \in RankReqs |-> IdleRank]
    /\ page = IdlePage
    /\ MatchOff
    /\ GenOff
    /\ UploadOff
    /\ deleteReq = NoDeleteReq
    /\ ReadOff

NextUpload ==
    \/ \E r \in UploadReqs, userId \in UserIds \cup {NoUserId},
          seenUserId \in UserIds \cup {NoUserId}, hasFile \in BOOLEAN,
          mimetype \in MimeTypes, payload \in Payloads :
           UploadTransport(r, userId, seenUserId, hasFile, mimetype, payload)
    \/ \E r \in UploadReqs : UploadHandle(r)
    \/ \E r \in UploadReqs : UploadParsed(r)
    \/ \E r \in UploadReqs, ok \in BOOLEAN : UploadWriteSettles(r, ok)
    \/ Tick

SpecUpload == InitUpload /\ [][NextUpload]_vars

\* ------------------------------------------------------------------------
\* Properties of the upload (checked under SpecUpload)
\* ------------------------------------------------------------------------
SupportedTypes ==
    {"application/pdf",
     "application/vnd.openxmlformats-officedocument.wordprocessingml.document",
     "text/plain"}

\* request r takes a step
UploadSteps(r) == upload'[r] # upload[r]

\* C15: extraction dispatches on the declared media type alone: an upload
\* that reaches extraction with a declared type other than PDF, DOCX or plain
\* text is answered with the unsupported-type failure whatever its bytes
\* are, and no step of such a request writes a resume record.
C15_UnsupportedTypeFails ==
    /\ [](\A r \in UploadReqs :
            upload[r].read /\ upload[r].mimetype \notin SupportedTypes
                => /\ upload[r].pc = "done" /\ upload[r].status = 500
                   /\ upload[r].message = processingFailed(UnsupportedFileType))
    /\ [][\A r \in UploadReqs :
            UploadSteps(r) /\ upload'[r].hasFile /\ upload'[r].mimetype \notin SupportedTypes
                => resumes' = resumes]_vars

\* C15 witness: a file of text bytes declared as image/png, refused
C15_Witness ==
    \E r \in UploadReqs :
        /\ upload[r].pc = "done" /\ upload[r].mimetype = "image/png"
        /\ upload[r].read /\ upload[r].dataBuffer = <<97>>
        /\ upload[r].message = processingFailed(UnsupportedFileType)
        /\ ~resumes[upload[r].userId].exists

\* empty or whitespace only
BlankText(text) == \A i \in 1..Len(text) : text[i] \in WhitespaceChars

\* the answers of a failed extraction
ExtractionFailedMessages == {processingFailed(CouldNotExtract), processingFailed(ParserError)}

\* C16: an upload of a supported type whose extracted text is empty or
\* whitespace only, and any upload of a supported type read as no bytes at
\* all, is answered with an extraction failure, and no record with such a
\* text is ever stored.
C16_BlankTextFails ==
    /\ \A r \in UploadReqs :
          /\ upload[r].pc = "done" /\ upload[r].read
          /\ upload[r].mimetype \in SupportedTypes
          /\ upload[r].dataBuffer = <<>> \/ BlankText(upload[r].resumeText)
          => upload[r].status = 500 /\ upload[r].message \in ExtractionFailedMessages
    /\ \A r \in UploadReqs :
          upload[r].pc = "writing" \/ upload[r].status = 200
              => ~BlankText(upload[r].resumeText) /\ upload[r].dataBuffer # <<>>
    /\ \A u \in UserIds : resumes[u].exists => ~BlankText(resumes[u].resumeText)

\* C16 witness: a plain-text upload of one space, refused, nothing stored
C16_Witness ==
    \E r \in UploadReqs :
        /\ upload[r].pc = "done" /\ upload[r].mimetype = "text/plain"
        /\ upload[r].read /\ upload[r].dataBuffer = <<32>>
        /\ upload[r].message = processingFailed(CouldNotExtract)
        /\ ~resumes[upload[r].userId].exists

\* C17: after an upload request that ended in failure, the file the
\* transport wrote for it is gone.
C17_NoOrphanedFile ==
    \A r \in UploadReqs :
        upload[r].pc = "done" /\ upload[r].status # 200 /\ upload[r].hasFile
            => ~files[upload[r].filePath].exists

\* C18: an upload request that fails leaves the stored resume records as
\* they are: only the step that ends a request with 200 changes a record,
\* and it changes the record of that request's candidate alone.
C18_FailedUploadKeepsRecords ==
    [][\A r \in UploadReqs :
          UploadSteps(r)
              => /\ ~(upload'[r].pc = "done" /\ upload'[r].status = 200) => resumes' = resumes
                 /\ \A u \in UserIds : u # upload'[r].userId => resumes'[u] = resumes[u]]_vars

\* C18 witness: a candidate's upload failed at the storage write after an
\* earlier upload of theirs had been stored, and the record is still the
\* earlier one
C18_Witness ==
    \E r, q \in UploadReqs :
        /\ upload[q].pc = "done" /\ upload[q].status = 200
        /\ upload[r].pc = "done" /\ upload[r].message = processingFailed(StorageError)
        /\ upload[r].userId = upload[q].userId
        /\ upload[r].uploadedAt > upload[q].uploadedAt
        /\ resumes[upload[q].userId] = resumeData(upload[q])

\* the storage write of request r completes
WriteCompletes(r) ==
    upload[r].pc = "writing" /\ upload'[r].pc = "done" /\ upload'[r].status = 200

\* C19: one record per candidate, keyed by the candidate's id; a record
\* changes only when a storage write for that candidate completes, and then
\* its resumeText, uploadedAt and filePath are all those of that upload, so
\* after any interleaving the record is that of the write completed last.
C19_LastWriteWinsWhole ==
    /\ [](\A u \in UserIds : resumes[u].exists => resumes[u].userId = u)
    /\ [][\A u \in UserIds :
            resumes'[u] # resumes[u]
                => \E r \in UploadReqs :
                      /\ WriteCompletes(r) /\ upload[r].userId = u
                      /\ resumes'[u].resumeText = upload[r].resumeText
                      /\ resumes'[u].uploadedAt = upload[r].uploadedAt
                      /\ resumes'[u].filePath = upload[r].filePath]_vars

\* C19 witness: two uploads of one candidate, both stored, with different
\* files; the record is the one of the second
C19_Witness ==
    \E r, q \in UploadReqs :
        /\ r # q /\ upload[r].userId = upload[q].userId
        /\ upload[r].status = 200 /\ upload[q].status = 200
        /\ upload[r].filePath # upload[q].filePath
        /\ resumes[upload[r].userId] = resumeData(upload[r])

\* ------------------------------------------------------------------------
\* Properties of the job postings (checked under SpecRank)
\* ------------------------------------------------------------------------
\* C20: a job posting is removed only on a delete request of the recruiter
\* stored as its recruiterId, and no step changes the fields of a job that
\* stays.
C20_OnlyOwnerMutatesJob ==
    [][\A j \in JobIds :
          jobs[j].exists
              => IF jobs'[j].exists THEN jobs'[j] = jobs[j]
                 ELSE deleteReq'.requesterId = jobs[j].recruiterId]_vars

\* ------------------------------------------------------------------------
\* Further properties of the upload (checked under SpecUpload)
\* ------------------------------------------------------------------------
\* the failure messages of the upload that are fixed in the handler
FixedUploadMessages ==
    {MissingUploadInput, processingFailed(UnsupportedFileType), processingFailed(CouldNotExtract)}

\* C21: no failure answer carries the message of an exception raised by a
\* collaborator (parser, storage): every failing upload is answered with one
\* of the fixed messages of the operation.
C21_OnlyFixedMessages ==
    \A r \in UploadReqs :
        upload[r].pc = "done" /\ upload[r].status # 200
            => upload[r].message \in FixedUploadMessages

\* C28: in every reachable state the filePath of each stored resume record
\* names a file that is on disk.
C28_StoredPathExists ==
    \A u \in UserIds : resumes[u].exists => files[resumes[u].filePath].exists

\* ------------------------------------------------------------------------
\* Further properties of the AI features (checked under SpecGen)
\* ------------------------------------------------------------------------
\* C22: each generation request calls the external collaborator at most
\* once, also after a collaborator failure or malformed recommendation text.
C22_AtMostOneCall ==
    \A r \in GenReqs : gen[r].calls <= 1

\* C22 witness: a recommendations request answered after one call that
\* returned text that is no JSON, and one answered 500 after one call
C22_Witness ==
    \E r \in GenReqs :
        /\ gen[r].pc = "done" /\ gen[r].calls = 1
        /\ \/ gen[r].op = "suggestions" /\ gen[r].text = "Dear team" /\ gen[r].status = 200
           \/ gen[r].op = "coverletter" /\ gen[r].status = 500

\* ------------------------------------------------------------------------
\* Further properties of the matcher (checked under SpecMatch)
\* ------------------------------------------------------------------------
\* a text with its letters lower-cased, and with them upper-cased
CaseFolded(text) == [i \in 1..Len(text) |-> IF text[i] = "A" THEN "a" ELSE text[i]]
CaseRaised(text) == [i \in 1..Len(text) |-> IF text[i] = "a" THEN "A" ELSE text[i]]

\* the comma-separated pieces of a skills string, lower-cased and trimmed,
\* the empty ones left out, every occurrence kept
Pieces(skills) ==
    LET parts == split(CaseFolded(skills))
    IN SelectSeq([k \in 1..Len(parts) |-> trim(parts[k])], LAMBDA piece : piece # <<>>)

Occurrences(seq, x) == Cardinality({i \in 1..Len(seq) : seq[i] = x})

\* C23: repeated skills stay separate entries: each occurrence counts once
\* in the denominator of the score and is once in matchedSkills or in
\* missingSkills.
C23_DuplicatesCounted ==
    MatchDone =>
        LET required == Pieces(inSkills)
            matched == outResult.matchedSkills
            missing == outResult.missingSkills
        IN /\ Len(matched) + Len(missing) = Len(required)
           /\ \A x \in Range(required) :
                  Occurrences(matched, x) + Occurrences(missing, x) = Occurrences(required, x)
           /\ Len(required) >= 1 => outResult.matchScore = matchScoreOf(Len(matched), Len(required))

\* C23 witness: the skills "a,a,b" against the resume "a": three required
\* skills, two of them matched, the score 67
C23_Witness ==
    /\ MatchDone
    /\ inSkills = <<"a", ",", "a", ",", "b">> /\ inResume = <<"a">>
    /\ outResult.matchedSkills = << <<"a">>, <<"a">> >>
    /\ outResult.missingSkills = << <<"b">> >>
    /\ outResult.matchScore = 67

HasOtherCharacter(skill) ==
    \E i \in 1..Len(skill) :
        \/ skill[i] \notin LowerChars \cup DigitChars \cup {" "}
        \/ skill[i] = " " /\ i < Len(skill) /\ skill[i + 1] = " "

\* C26: a required skill that, lower-cased and trimmed, holds a character
\* other than a-z, 0-9 or a single space between words is never matched: it
\* is in missingSkills whatever the resume text.
C26_OtherCharactersNeverMatch ==
    MatchDone =>
        \A skill \in Range(Pieces(inSkills)) :
            HasOtherCharacter(skill)
                => /\ skill \notin Range(outResult.matchedSkills)
                   /\ skill \in Range(outResult.missingSkills)

\* C26 witness: the skill "a+" against the resume "a+", and the skill with
\* two spaces in it against the resume with the same two spaces
C26_Witness ==
    /\ MatchDone
    /\ \/ inSkills = <<"a", "+">> /\ inResume = <<"a", "+">>
       \/ inSkills = <<"a", " ", " ", "b">> /\ inResume = <<"a", " ", " ", "b">>
    /\ outResult.missingSkills = <<inSkills>>

\* C27 as stated: with at least one required skill, matchScore is 100 if and
\* only if missingSkills is empty and 0 if and only if matchedSkills is
\* empty, for every required-skill count.
C27_ExtremesIffEmpty ==
    MatchDone /\ Len(Pieces(inSkills)) >= 1 =>
        /\ outResult.matchScore = 100 <=> outResult.missingSkills = <<>>
        /\ outResult.matchScore = 0 <=> outResult.matchedSkills = <<>>

\* C27: with at least one required skill, matchScore is 100 when
\* missingSkills is empty and 0 when matchedSkills is empty, for every
\* count; the converses hold for fewer than 200 required skills.
C27_ExtremesIffEmptyBelow200 ==
    MatchDone /\ Len(Pieces(inSkills)) >= 1 =>
        /\ outResult.missingSkills = <<>> => outResult.matchScore = 100
        /\ outResult.matchedSkills = <<>> => outResult.matchScore = 0
        /\ Len(Pieces(inSkills)) < 200 =>
              /\ outResult.matchScore = 100 => outResult.missingSkills = <<>>
              /\ outResult.matchScore = 0 => outResult.matchedSkills = <<>>

\* C27 witness: 199 required skills, all but one matched, and a score
\* below 100
C27_Witness ==
    /\ MatchDone
    /\ Len(Pieces(inSkills)) = 199
    /\ Len(outResult.missingSkills) = 1
    /\ outResult.matchScore = 99

\* ------------------------------------------------------------------------
\* The reading endpoints beside a writer (match, ranking, generation)
\* ------------------------------------------------------------------------
InitReadOnly ==
    /\ jobs \in [JobIds -> {NoDoc, [exists |-> TRUE, title |-> "dev", skills |-> <<"a">>,
                                    recruiterId |-> 1]}]
    /\ nextJobId = Cardinality(JobIds)
    /\ users = [u \in UserIds |-> [exists |-> TRUE, email |-> u, role |-> "Job Seeker"]]
    /\ resumes \in {[u \in UserIds |-> IF u = 1 THEN first ELSE NoDoc] :
                    first \in {NoDoc, LegacyResumeDoc,
                               [exists |-> TRUE, resumeText |-> <<"A">>]}}
    /\ rank = [r \in RankReqs |-> IdleRank]
    /\ page = IdlePage
    /\ MatchOff
    /\ gen = [r \in GenReqs |-> IdleGen]
    /\ gemini = [apiKey |-> TRUE, canvasMode |-> FALSE]
    /\ UploadOff
    /\ deleteReq = NoDeleteReq
    /\ ReadOff

NextReadOnly ==
    \/ \E resumeText \in ResumeTexts : ResumeStored(1, resumeText)
    \/ \E jobId \in JobIds : MatchSend(1, jobId, 1)
    \/ MatchReadJob(1)
    \/ MatchReadResume(1)
    \/ \E r \in RankReqs, jobId \in JobIds : RankReadJob(r, jobId)
    \/ \E r \in RankReqs : RankReadResumes(r)
    \/ \E r \in RankReqs : RankRespond(r)
    \/ \E r \in GenReqs, op \in Ops, userId \in {1, NoUserId},
          allJobs \in AllJobsInputs : GenReceive(r, op, userId, allJobs)
    \/ \E r \in GenReqs : GenReadResume(r)
    \/ \E r \in GenReqs, reply \in GeminiReplies : GenReply(r, reply)

SpecReadOnly == InitReadOnly /\ [][NextReadOnly]_vars

\* C25: a step of a match, a ranking or a generation request leaves every
\* job, resume and user record as it was, whatever the request comes to.
C25_ReadsLeaveRecordsUnchanged ==
    [][(matchReq' # matchReq \/ rank' # rank \/ gen' # gen) => UNCHANGED storeVars]_vars

\* C25 witness: a match answered with a result, beside a generation request
\* that failed after its collaborator call and an answered ranking request
C25_Witness ==
    /\ matchReq[1].pc = "done" /\ matchReq[1].status = 200
    /\ \E r \in RankReqs : rank[r].pc = "done"
    /\ \E r \in GenReqs : gen[r].pc = "done" /\ gen[r].status = 500 /\ gen[r].calls = 1

\* ------------------------------------------------------------------------
\* Deleted job postings (two job ids, posted and deleted beside the readers)
\* ------------------------------------------------------------------------
TwoJobIds == {1, 2}
RequestedJobIds == TwoJobIds \cup {UnknownJobId}

InitJobs ==
    /\ jobs = [j \in TwoJobIds |-> NoDoc]
    /\ nextJobId = 0
    /\ users = [u \in UserIds |-> [exists |-> TRUE, email |-> u, role |-> "Job Seeker"]]
    /\ resumes = [u \in UserIds |-> IF u = 1 THEN [exists |-> TRUE, resumeText |-> <<"a">>]
                                    ELSE NoDoc]
    /\ rank = [r \in RankReqs |-> IdleRank]
    /\ page = IdlePage
    /\ MatchOff
    /\ GenOff
    /\ UploadOff
    /\ deleteReq = NoDeleteReq
    /\ ReadOff

NextJobs ==
    \/ \E skills \in JobSkillsInputs : PostJob("dev", skills, 1)
    \/ \E jobId \in RequestedJobIds : DeleteJob(1, jobId)
    \/ \E jobId \in RequestedJobIds : JobLookup(jobId)
    \/ \E jobId \in RequestedJobIds : MatchSend(1, jobId, 1)
    \/ MatchReadJob(1)
    \/ MatchReadResume(1)
    \/ \E r \in RankReqs, jobId \in TwoJobIds : RankReadJob(r, jobId)
    \/ \E r \in RankReqs : RankReadResumes(r)
    \/ \E r \in RankReqs : RankRespond(r)

SpecJobs == InitJobs /\ [][NextJobs]_vars

\* the id was handed out and its job was deleted since
Deleted(jobId) == jobId \in 1..nextJobId /\ ~jobDoc(jobId).exists

\* C29: a deleted job stays deleted; every job lookup, match request and
\* ranking request that reads a deleted job answers 404 'Job not found.';
\* a delete of an id that names no job answers 200 and changes no job, and
\* any delete leaves the other jobs as they were.
C29_DeletedJobStaysNotFound ==
    [][/\ \A j \in TwoJobIds : Deleted(j) => Deleted(j)'
       /\ lookup' # lookup /\ Deleted(lookup'.jobId)
              => lookup'.status = 404 /\ lookup'.message = jobNotFoundMessage
       /\ \A r \in MatchReqs :
              matchReq[r].pc = "sent" /\ matchReq'[r].pc # "sent" /\ Deleted(matchReq[r].jobId)
                  => /\ matchReq'[r].pc = "done"
                     /\ matchReq'[r].status = 404
                     /\ matchReq'[r].message = jobNotFoundMessage
       /\ \A r \in RankReqs :
              rank[r].pc = "idle" /\ rank'[r].pc # "idle" /\ Deleted(rank'[r].jobId)
                  => /\ rank'[r].pc = "done"
                     /\ rank'[r].status = 404
                     /\ rank'[r].message = jobNotFoundMessage
       /\ deleteReq' # deleteReq
              => /\ deleteReq'.status = 200
                 /\ \A j \in TwoJobIds : j # deleteReq'.jobId => jobs'[j] = jobs[j]
                 /\ ~jobDoc(deleteReq'.jobId).exists => jobs' = jobs]_vars

\* C29 witness: job 1 was deleted and job 2 is there; a lookup, a match and
\* a ranking of job 1 were answered 404 since, and the last delete named an
\* id that never was a job
C29_Witness ==
    /\ Deleted(1) /\ jobs[2].exists
    /\ lookup.sent /\ lookup.jobId = 1 /\ lookup.status = 404
    /\ matchReq[1].pc = "done" /\ matchReq[1].jobId = 1 /\ matchReq[1].status = 404
    /\ \E r \in RankReqs : rank[r].pc = "done" /\ rank[r].jobId = 1 /\ rank[r].status = 404
    /\ deleteReq.sent /\ deleteReq.jobId = UnknownJobId /\ deleteReq.status = 200

\* ------------------------------------------------------------------------
\* The MatchAnalysis component beside the match endpoint
\* ------------------------------------------------------------------------
InitView ==
    /\ jobs \in {[j \in TwoJobIds |->
                     IF j = 1 THEN [exists |-> TRUE, title |-> "dev", skills |-> <<"a">>,
                                    recruiterId |-> 1]
                     ELSE second] :
                 second \in {NoDoc, [exists |-> TRUE, title |-> "dev",
                                     skills |-> <<"a", ",", "b">>, recruiterId |-> 1]}}
    /\ nextJobId = 2
    /\ users = [u \in UserIds |-> [exists |-> TRUE, email |-> u, role |-> "Job Seeker"]]
    /\ resumes \in {[u \in UserIds |-> IF u = 1 THEN first ELSE NoDoc] :
                    first \in {NoDoc, [exists |-> TRUE, resumeText |-> <<"a">>]}}
    /\ rank = [r \in RankReqs |-> IdleRank]
    /\ page = IdlePage
    /\ MatchOff
    /\ GenOff
    /\ UploadOff
    /\ deleteReq = NoDeleteReq
    /\ ReadOff

NextView ==
    \/ \E jobId \in TwoJobIds \cup {NoJobId}, userId \in {1, NoUserId} : ViewEffect(jobId, userId)
    \/ \E r \in MatchReqs : MatchReadJob(r)
    \/ \E r \in MatchReqs : MatchReadResume(r)
    \/ \E r \in MatchReqs, delivered \in BOOLEAN : ViewReceive(r, delivered)

SpecView == InitView /\ [][NextView]_vars

\* every request the component sent has settled
ViewSettled == view.mounted /\ view.pending = {}

\* C30: once every match request the component sent has settled, it shows
\* the answer to the request for its current jobId and user (the analysis
\* of a 200, the message for a failure), and the message for missing props
\* when the current props gave no request.
C30_ShowsLatestAnswer ==
    ViewSettled =>
        displayed =
            IF view.latest = 0 THEN [kind |-> "error", error |-> cannotAnalyseMessage]
            ELSE IF view.answers[view.latest].status = 200
                 THEN [kind |-> "analysis", analysis |-> view.answers[view.latest].body]
                 ELSE [kind |-> "error",
                       error |-> IF view.answers[view.latest].status = 404
                                 THEN analysisNotPerformedMessage
                                 ELSE analysisErrorMessage]

====
